---------------------------- MODULE Spec2Model ----------------------------
(***************************************************************************)
(* A model of medusa: the task-queue facade (src/medusa/api.py), the       *)
(* SQLite storage backend (src/medusa/storage.py), the exception taxonomy  *)
(* (src/medusa/exceptions.py) and the helpers of src/medusa/utils.py.      *)
(*                                                                         *)
(* One database file holds the three tables Task, Schedule and KeyValue.   *)
(* Every SqliteStorage handle carries a queue name; several handles, in    *)
(* several processes, share the tables.  Every SQL statement is atomic;    *)
(* a storage method that issues two statements (dequeue, read_schedule)    *)
(* is two steps, and other processes may run between them.                 *)
(***************************************************************************)
EXTENDS Integers, Sequences, FiniteSets, TLC

(***************************************************************************)
(* Bounds of the model.                                                    *)
(***************************************************************************)
\* rows ever inserted into the Task table
MaxTasks == 3
\* rows ever inserted into the Schedule table
MaxSched == 2
\* rows ever inserted into the KeyValue table
MaxKV == 2
\* entries ever appended to the error log
MaxErrors == 2
\* Schedule rows the application of the scheduled-tasks specification inserts
MaxAhead == 1
\* rows each table holds at most when the flushes start
MaxFlush == 2
\* rows the stores hold together at most while the wrapped methods are called
MaxRows == 1
\* the clock runs from 0 to MaxTime
MaxTime == 2
\* the largest delay handed to schedule()
MaxDelay == 1

\* queue names: SqliteStorage.__init__(name=...)
Queues == {"A", "B"}
\* concurrent callers of the storage methods (consumer processes)
Consumers == {"c1", "c2"}
\* the name of the application's Medusa instance: Medusa.__init__(name=...)
Facade == "A"
\* the consumer process that runs beside the application
Worker == "c1"
\* names under which task functions are registered
TaskNames == {"add", "mul"}

(***************************************************************************)
(* Values.                                                                 *)
(***************************************************************************)
\* Python's None as the value of a variable that holds a row
NoRow == [id |-> 0]

\* The value a call returns: tag says what it is, val holds it.
RetNone == [tag |-> "None", val |-> <<>>]
RetData(d) == [tag |-> "data", val |-> <<d>>]
RetList(s) == [tag |-> "list", val |-> s]
RetInt(n) == [tag |-> "int", val |-> <<n>>]
RetTask(t) == [tag |-> "task", val |-> <<t>>]
RetValue(v) == [tag |-> "value", val |-> <<v>>]
RetWrapper(t) == [tag |-> "wrapper", val |-> <<t>>]

\* An exception: its class and, for a wrapped one, the class name of the original
\* error that wrap_exception formats into the message
Exc(cls, ctx) == [cls |-> cls, ctx |-> ctx]
\* no exception raised
NoExc == Exc("none", "")

\* the classes of src/medusa/exceptions.py: QueueException and its subclasses
Taxonomy ==
    {"QueueException", "QueueWriteException", "QueueReadException",
     "QueueRemoveException", "DataStoreGetException", "DataStorePutException",
     "DataStoreTimeout", "ScheduleAddException", "ScheduleReadException",
     "ConfigurationError"}

\* errors the database layer raises out of a storage method (peewee)
BackendErrors == {"OperationalError", "IntegrityError"}

\* a keyword-arguments mapping, as its (key, value) pairs
NoKwargs == <<>>
\* task instances: the registered name, the arguments, the keyword arguments
TaskInstances ==
    {[name |-> "add", args |-> <<1>>, kwargs |-> NoKwargs],
     [name |-> "mul", args |-> <<2>>, kwargs |-> <<<<"by", 3>>>>]}

\* registry.get_message_for_task: the wire message of a task instance
get_message_for_task(task) == <<task.name, task.args, task.kwargs>>

\* registry.get_task_for_message: the task instance of a wire message
get_task_for_message(msg) == [name |-> msg[1], args |-> msg[2], kwargs |-> msg[3]]

\* the payloads that reach the storage: wire messages
Payloads == {get_message_for_task(t) : t \in TaskInstances}

SetMax(S) == CHOOSE x \in S : \A y \in S : y <= x


(***************************************************************************)
(* State.                                                                  *)
(***************************************************************************)
VARIABLES
    tasks,          \* the Task table: rows [id, queue, data, uid]
    schedule,       \* the Schedule table: rows [id, queue, data, timestamp, uid]
    keyvalue,       \* the KeyValue table: rows [id, queue, key, value]
    errors,         \* the error log: a sequence of [queue, metadata]
    clock,          \* datetime.datetime.now(), in seconds
    always_eager,   \* Medusa.always_eager
    result_store,   \* Medusa.result_store
    local,          \* per consumer: where it is in dequeue / read_schedule
    taskUid,        \* history: number of Task rows ever inserted
    schedUid,       \* history: number of Schedule rows ever inserted
    deqReturned,    \* history: uid -> number of dequeue calls that returned the row
    schedReturned,  \* history: uid -> number of read_schedule calls that returned the row
    last            \* history: the call that completed last

db == <<tasks, schedule, keyvalue, errors>>
config == <<always_eager, result_store>>
history == <<taskUid, schedUid, deqReturned, schedReturned>>
vars == <<tasks, schedule, keyvalue, errors, clock, always_eager, result_store,
          local, taskUid, schedUid, deqReturned, schedReturned, last>>

\* a completed call: the method, the queue name of the handle or facade, the
\* arguments, the value returned, the exception the caller observes, the error
\* raised inside the call before any wrapping, and what the call invoked (the SQL
\* statements of a storage method, the storage methods of a facade method)
FacadeCall(op, name, arg, ret, exc, raw, calls) ==
    [op |-> op, name |-> name, arg |-> arg, ret |-> ret, exc |-> exc, raw |-> raw,
     calls |-> calls]

\* a completed call of a storage method: what it raises it raises unwrapped
Call(op, name, arg, ret, exc, calls) ==
    [op |-> op, name |-> name, arg |-> arg, ret |-> ret, exc |-> exc, raw |-> exc,
     calls |-> calls]

Idle == [pc |-> "idle", name |-> "A", task |-> NoRow, rows |-> <<>>, ts |-> 0]

(***************************************************************************)
(* The tables.  A model without an explicit primary key gets an integer    *)
(* id column; SQLite gives a new row the largest id of the table plus one. *)
(***************************************************************************)
\* Task.create / Schedule.create / KeyValue.create: the id of the new row
NewId(table) == IF table = {} THEN 1 ELSE SetMax({r.id : r \in table}) + 1

\* order_by(Task.id): the rows in the order of their ids
RECURSIVE order_by_id(_)
order_by_id(rows) ==
    IF rows = {} THEN <<>>
    ELSE LET first == CHOOSE r \in rows : \A o \in rows : r.id <= o.id
         IN  <<first>> \o order_by_id(rows \ {first})

\* order_by(Schedule.timestamp): the rows in the order of their timestamps, rows of
\* one timestamp in the order of their ids (the order SQLite's sorter yields)
RECURSIVE order_by_timestamp(_)
order_by_timestamp(rows) ==
    IF rows = {} THEN <<>>
    ELSE LET first == CHOOSE r \in rows : \A o \in rows :
                         \/ r.timestamp < o.timestamp
                         \/ r.timestamp = o.timestamp /\ r.id <= o.id
         IN  <<first>> \o order_by_timestamp(rows \ {first})

\* SqliteStorage.delete: the rows a delete of this handle addresses
delete(T, name) == {r \in T : r.queue = name}

\* SqliteStorage.tasks: the rows a select of this handle sees
tasks_of(T, name) == {r \in T : r.queue = name}

(***************************************************************************)
(* Queue.                                                                  *)
(***************************************************************************)
\* SqliteStorage.enqueue
enqueue(T, name, data, uid) ==
    T \cup {[id |-> NewId(T), queue |-> name, data |-> data, uid |-> uid]}

\* a select of dequeue that takes the row with the highest id
dequeue_select_newest(T, name) ==
    LET rows == order_by_id(tasks_of(T, name))
    IN  IF rows = <<>> THEN NoRow ELSE rows[Len(rows)]

\* SqliteStorage.dequeue, the select: the lowest-id row of the queue, or no row
dequeue_select(T, name) ==
    IF tasks_of(T, name) = {} THEN NoRow
    ELSE order_by_id(tasks_of(T, name))[1]

\* SqliteStorage.dequeue, the delete: the rows the delete-by-id removes
dequeue_delete(T, name, task) == {r \in delete(T, name) : r.id = task.id}

\* a dequeue that returns the selected payload whatever the delete affected
dequeue_return_unchecked(res, task) == RetData(task.data)

\* SqliteStorage.dequeue, the return: the payload only if one row was deleted
dequeue_return(res, task) == IF res = 1 THEN RetData(task.data) ELSE RetNone

\* an unqueue whose delete is not scoped by the queue name
unqueue_any_queue(T, name, data) == {r \in T : r.data = data}

\* SqliteStorage.unqueue: the rows removed
unqueue(T, name, data) == {r \in delete(T, name) : r.data = data}

\* SqliteStorage.queue_size
queue_size(T, name) == Cardinality(tasks_of(T, name))

\* SqliteStorage.flush_queue: the table afterwards
flush_queue(T, name) == T \ delete(T, name)

Bump(f, uid) == [f EXCEPT ![uid] = @ + 1]

(***************************************************************************)
(* Actions: the queue methods of a storage handle.                         *)
(***************************************************************************)
\* dequeue, line 186: select the lowest-id row; DoesNotExist returns None
DequeueSelect(c, name) ==
    /\ local[c].pc = "idle"
    /\ LET task == dequeue_select(tasks, name)
       IN IF task = NoRow
          THEN /\ last' = Call("dequeue", name, <<>>, RetNone, NoExc, <<"select">>)
               /\ UNCHANGED local
          ELSE /\ local' = [local EXCEPT ![c] =
                               [pc |-> "dequeue_delete", name |-> name,
                                task |-> task, rows |-> <<>>, ts |-> 0]]
               /\ UNCHANGED last
    /\ UNCHANGED <<db, clock, config, history>>

\* dequeue, lines 189-191: delete by id and return the payload if it was there
DequeueDelete(c) ==
    /\ local[c].pc = "dequeue_delete"
    /\ LET task == local[c].task
           name == local[c].name
           gone == dequeue_delete(tasks, name, task)
           ret == dequeue_return(Cardinality(gone), task)
       IN /\ tasks' = tasks \ gone
          /\ deqReturned' = IF ret = RetNone THEN deqReturned
                            ELSE Bump(deqReturned, task.uid)
          /\ last' = Call("dequeue", name, <<>>, ret, NoExc, <<"select", "delete">>)
    /\ local' = [local EXCEPT ![c] = Idle]
    /\ UNCHANGED <<schedule, keyvalue, errors, clock, config, taskUid, schedUid,
                   schedReturned>>

(***************************************************************************)
(* Schedule.                                                               *)
(***************************************************************************)
\* SqliteStorage.schedule: the rows a select of this handle sees
schedule_of(S, name) == {r \in S : r.queue = name}

\* SqliteStorage.add_to_schedule
add_to_schedule(S, name, data, ts, uid) ==
    S \cup {[id |-> NewId(S), queue |-> name, data |-> data, timestamp |-> ts,
             uid |-> uid]}

\* a select of read_schedule that leaves out the condition on the timestamp
read_schedule_select_all(S, name, ts) == order_by_timestamp(schedule_of(S, name))

\* SqliteStorage.read_schedule, the select: the due rows in timestamp order
read_schedule_select(S, name, ts) ==
    order_by_timestamp({r \in schedule_of(S, name) : r.timestamp <= ts})

\* SqliteStorage.read_schedule, the delete: the rows whose id is in id_list
read_schedule_delete(S, id_list) == {r \in S : r.id \in id_list}

\* SqliteStorage.schedule_size
schedule_size(S, name) == Cardinality(schedule_of(S, name))

\* a flush_schedule whose delete is not scoped by the queue name
flush_schedule_unscoped(S, name) == {}

\* SqliteStorage.flush_schedule: the table afterwards
flush_schedule(S, name) == S \ {r \in S : r.queue = name}

Range(seq) == {seq[i] : i \in 1..Len(seq)}
RowData(r) == r.data
\* the data column of the rows selected, in the order selected
data_of(rows) == [i \in 1..Len(rows) |-> RowData(rows[i])]

\* add_to_schedule: one insert
AddToSchedule(name, data, ts) ==
    /\ schedUid < MaxSched
    /\ schedule' = add_to_schedule(schedule, name, data, ts, schedUid + 1)
    /\ schedUid' = schedUid + 1
    /\ last' = Call("add_to_schedule", name, <<data, ts>>, RetNone, NoExc,
                    <<"insert">>)
    /\ UNCHANGED <<tasks, keyvalue, errors, clock, config, local, taskUid,
                   deqReturned, schedReturned>>

\* read_schedule, lines 219-227: select the due rows; none returns [] at once
ReadScheduleSelect(c, name, ts) ==
    /\ local[c].pc = "idle"
    /\ LET rows == read_schedule_select(schedule, name, ts)
       IN IF rows = <<>>
          THEN /\ last' = Call("read_schedule", name, <<ts>>, RetList(<<>>), NoExc,
                               <<"select">>)
               /\ UNCHANGED local
          ELSE /\ local' = [local EXCEPT ![c] =
                               [pc |-> "read_schedule_delete", name |-> name,
                                task |-> NoRow, rows |-> rows, ts |-> ts]]
               /\ UNCHANGED last
    /\ UNCHANGED <<db, clock, config, history>>

\* read_schedule, lines 228-232: delete the selected ids and return the payloads
ReadScheduleDelete(c) ==
    /\ local[c].pc = "read_schedule_delete"
    /\ LET rows == local[c].rows
           id_list == {r.id : r \in Range(rows)}
       IN /\ schedule' = schedule \ read_schedule_delete(schedule, id_list)
          /\ schedReturned' = [u \in DOMAIN schedReturned |->
                                  IF \E r \in Range(rows) : r.uid = u
                                  THEN schedReturned[u] + 1 ELSE schedReturned[u]]
          /\ last' = Call("read_schedule", local[c].name, <<local[c].ts>>,
                          RetList(data_of(rows)), NoExc, <<"select", "delete">>)
    /\ local' = [local EXCEPT ![c] = Idle]
    /\ UNCHANGED <<tasks, keyvalue, errors, clock, config, taskUid, schedUid,
                   deqReturned>>

\* time passes
Tick ==
    /\ clock < MaxTime
    /\ clock' = clock + 1
    /\ UNCHANGED <<db, config, local, history, last>>

(***************************************************************************)
(* Dates (src/medusa/utils.py).  A datetime is its wall-clock seconds and, *)
(* when aware, its offset from UTC.  A function returns a value or raises. *)
(***************************************************************************)
Naive(wall) == [wall |-> wall, aware |-> FALSE, offset |-> 0]
Aware(wall, offset) == [wall |-> wall, aware |-> TRUE, offset |-> offset]
Returns(v) == [exc |-> NoExc, value |-> v]
Raises(cls) == [exc |-> Exc(cls, ""), value |-> Naive(0)]

\* is_naive
is_naive(dt) == ~dt.aware

\* is_aware
is_aware(dt) == ~is_naive(dt)

\* make_naive: drop the offset, keep the wall clock
make_naive(dt) == Naive(dt.wall)

\* aware_to_utc: the wall clock at offset zero, made naive
aware_to_utc(dt) == Returns(make_naive(Aware(dt.wall - dt.offset, 0)))

\* local_to_utc: the slice [:6] stands outside the call of datetime.datetime, which
\* is handed the nine fields of the struct_time and raises TypeError
local_to_utc(dt) == Raises("TypeError")

(***************************************************************************)
(* The facade (src/medusa/api.py).                                         *)
(***************************************************************************)
\* the function a task name is registered for, applied to the arguments
call_local(name, args) == IF name = "add" THEN args[1] + 1 ELSE args[1] * 2

\* QueueTask.execute: the function's return value
execute(task) == call_local(task.name, task.args)

\* a wrap_exception that lets the original error through
wrap_exception_reraise(new_exc_class, exc) == exc

\* wrap_exception: raise new_exc_class, its message naming the original class
wrap_exception(new_exc_class, exc) == Exc(new_exc_class, exc.cls)

\* _wrapped_operation(exc_class): what the caller observes when the body of the
\* wrapped method raised raw (or did not raise)
wrapped_operation(exc_class, raw) ==
    IF raw = NoExc THEN NoExc ELSE wrap_exception(exc_class, raw)

\* the exception class each wrapped method is decorated with
wrapped_class(op) ==
    CASE op = "_enqueue" -> "QueueWriteException"
      [] op = "_dequeue" -> "QueueReadException"
      [] op = "_unqueue" -> "QueueRemoveException"
      [] op = "_get_data" -> "DataStoreGetException"
      [] op = "_put_data" -> "DataStorePutException"
      [] op = "_put_error" -> "DataStorePutException"
      [] op = "_get_errors" -> "DataStoreGetException"
      [] op = "_add_to_schedule" -> "ScheduleAddException"
      [] op = "_read_schedule" -> "ScheduleReadException"

\* what the database layer does to a storage call: lets it run, or raises
BackendOutcomes == {NoExc} \cup {Exc(e, "") : e \in BackendErrors}

\* an enqueue that never runs the task in the caller
enqueue_eagerly_never(eager) == FALSE

\* Medusa.enqueue, line 212: whether the task is executed instead of stored
enqueue_eagerly(eager) == eager

\* Medusa._dequeue: the body takes msg and hands it to storage.dequeue, which takes
\* no argument; called with nargs arguments it raises TypeError either way
dequeue_body(nargs) ==
    IF nargs # 1 THEN Exc("TypeError", "") ELSE Exc("TypeError", "")

\* Medusa.enqueue(task), entered from method op called with arg: eager mode runs
\* the task; otherwise _enqueue writes the message to the Task table (also when the
\* task carries an execute_time) and the result wrapper is returned when results
\* are stored
enqueue_task(op, arg, name, task, raw) ==
    IF enqueue_eagerly(always_eager)
    THEN /\ raw = NoExc
         /\ last' = FacadeCall(op, name, arg, RetValue(execute(task)), NoExc, NoExc, <<>>)
         /\ UNCHANGED <<db, clock, config, local, history>>
    ELSE IF raw # NoExc
    THEN /\ last' = FacadeCall(op, name, arg, RetNone,
                               wrapped_operation(wrapped_class("_enqueue"), raw), raw,
                               <<"enqueue">>)
         /\ UNCHANGED <<db, clock, config, local, history>>
    ELSE /\ taskUid < MaxTasks
         /\ tasks' = enqueue(tasks, name, get_message_for_task(task), taskUid + 1)
         /\ taskUid' = taskUid + 1
         /\ last' = FacadeCall(op, name, arg,
                               IF result_store THEN RetWrapper(task) ELSE RetNone,
                               NoExc, NoExc, <<"enqueue">>)
         /\ UNCHANGED <<schedule, keyvalue, errors, clock, config, local, schedUid,
                        deqReturned, schedReturned>>

\* Medusa.enqueue(task)
Medusa_enqueue(name, task, raw) == enqueue_task("Medusa.enqueue", task, name, task, raw)

(***************************************************************************)
(* schedule(), the method Medusa.task attaches to a task function.  delay  *)
(* is 0 for None; eta is <<>> for None and <<dt>> for a datetime.          *)
(***************************************************************************)
\* a schedule that accepts a delay together with an eta
schedule_check_missing(delay, eta) == NoExc

\* schedule, lines 98-100: a delay and an eta together are refused
schedule_check(delay, eta) ==
    IF delay # 0 /\ eta # <<>> THEN Exc("ValueError", "") ELSE NoExc

\* schedule, lines 101-110: the eta of the task, normalised
schedule_eta(delay, eta, convert_utc, now) ==
    LET given == IF delay # 0 THEN <<Naive(now + delay)>> ELSE eta
    IN  IF given = <<>> THEN Returns(Naive(0))
        ELSE IF is_naive(given[1]) /\ convert_utc THEN local_to_utc(given[1])
        ELSE IF is_aware(given[1]) /\ convert_utc THEN aware_to_utc(given[1])
        ELSE IF is_aware(given[1]) /\ ~convert_utc THEN Returns(make_naive(given[1]))
        ELSE Returns(given[1])

\* schedule, lines 111-116: the task instance is built from (args or (), kawargs or
\* {}); kawargs is no name of the function or the module, so this raises NameError
schedule_cmd(task) == Raises("NameError")

\* the exception schedule raises before it reaches self.enqueue(cmd), if any
schedule_raises(task, delay, eta, convert_utc, now) ==
    IF schedule_check(delay, eta) # NoExc THEN schedule_check(delay, eta)
    ELSE IF schedule_eta(delay, eta, convert_utc, now).exc # NoExc
    THEN schedule_eta(delay, eta, convert_utc, now).exc
    ELSE schedule_cmd(task).exc

\* func.schedule(args, kwargs, eta, delay, convert_utc) on the facade called name
TaskSchedule(name, task, delay, eta, convert_utc, raw) ==
    LET arg == [task |-> task, delay |-> delay, eta |-> eta,
                convert_utc |-> convert_utc, now |-> clock]
        exc == schedule_raises(task, delay, eta, convert_utc, clock)
    IN  IF exc # NoExc
        THEN /\ raw = NoExc
             /\ last' = FacadeCall("schedule", name, arg, RetNone, exc, exc, <<>>)
             /\ UNCHANGED <<db, clock, config, local, history>>
        ELSE enqueue_task("schedule", arg, name, task, raw)

\* Medusa.dequeue(): _dequeue is called without msg, so its body raises and the
\* wrapper turns that into QueueReadException; no storage method is reached
Medusa_dequeue(name) ==
    /\ LET raw == dequeue_body(0)
       IN last' = FacadeCall("Medusa.dequeue", name, <<>>, RetNone,
                             wrapped_operation(wrapped_class("_dequeue"), raw), raw, <<>>)
    /\ UNCHANGED <<db, clock, config, local, history>>

(***************************************************************************)
(* Actions: the other queue methods of a storage handle.                   *)
(***************************************************************************)
\* enqueue: one insert
Enqueue(name, data) ==
    /\ taskUid < MaxTasks
    /\ tasks' = enqueue(tasks, name, data, taskUid + 1)
    /\ taskUid' = taskUid + 1
    /\ last' = Call("enqueue", name, <<data>>, RetNone, NoExc, <<"insert">>)
    /\ UNCHANGED <<schedule, keyvalue, errors, clock, config, local, schedUid,
                   deqReturned, schedReturned>>

\* unqueue: one delete, which returns the number of rows it removed
Unqueue(name, data) ==
    /\ LET gone == unqueue(tasks, name, data)
       IN /\ tasks' = tasks \ gone
          /\ last' = Call("unqueue", name, <<data>>, RetInt(Cardinality(gone)),
                          NoExc, <<"delete">>)
    /\ UNCHANGED <<schedule, keyvalue, errors, clock, config, local, history>>

\* flush_queue: one delete
FlushQueue(name) ==
    /\ tasks' = flush_queue(tasks, name)
    /\ last' = Call("flush_queue", name, <<>>, RetNone, NoExc, <<"delete">>)
    /\ UNCHANGED <<schedule, keyvalue, errors, clock, config, local, history>>

(***************************************************************************)
(* The queue: producers and consumers on storage handles, and the facade.  *)
(***************************************************************************)
InitCommon ==
    /\ schedule = {}
    /\ keyvalue = {}
    /\ errors = <<>>
    /\ clock = 0
    /\ local = [c \in Consumers |-> Idle]
    /\ schedUid = 0
    /\ deqReturned = [u \in 1..MaxTasks |-> 0]
    /\ schedReturned = [u \in 1..MaxSched |-> 0]
    /\ last = Call("init", "A", <<>>, RetNone, NoExc, <<>>)

Init ==
    /\ tasks = {}
    /\ taskUid = 0
    /\ always_eager \in BOOLEAN
    /\ result_store \in BOOLEAN
    /\ InitCommon

Next ==
    \/ \E name \in Queues, data \in Payloads : Enqueue(name, data)
    \/ \E name \in Queues : DequeueSelect(Worker, name)
    \/ DequeueDelete(Worker)
    \/ \E name \in Queues, data \in Payloads : Unqueue(name, data)
    \/ \E name \in Queues : FlushQueue(name)
    \/ \E task \in TaskInstances, raw \in BackendOutcomes :
          Medusa_enqueue(Facade, task, raw)
    \/ Medusa_dequeue(Facade)

Spec == Init /\ [][Next]_vars

\* C4: a non-eager facade enqueue(task) wrote its message; when that message is at
\* the head of the queue, the facade dequeue() that follows on the same queue returns
\* a task instance with the name, args and kwargs given at enqueue time.
C4_RoundTrip ==
    [][(/\ last.op = "Medusa.enqueue"
        /\ ~always_eager
        /\ last.exc = NoExc
        /\ last'.op = "Medusa.dequeue"
        /\ last'.name = last.name
        /\ dequeue_select(tasks, last.name) # NoRow
        /\ dequeue_select(tasks, last.name).data = get_message_for_task(last.arg))
        => /\ last'.exc = NoExc
           /\ last'.ret.tag = "task"
           /\ last'.ret.val[1].name = last.arg.name
           /\ last'.ret.val[1].args = last.arg.args
           /\ last'.ret.val[1].kwargs = last.arg.kwargs]_vars

\* C5: a dequeue of a queue that holds no Task row, through the storage handle or
\* through the facade, returns None, raises nothing and leaves the storage unchanged.
C5_EmptyDequeue ==
    [][(last'.op \in {"dequeue", "Medusa.dequeue"} /\ tasks_of(tasks, last'.name) = {})
        => /\ last'.ret = RetNone
           /\ last'.exc = NoExc
           /\ UNCHANGED db]_vars

\* C6: in eager mode enqueue(task) returns the value of task.execute(), invokes no
\* storage method and leaves the queue, the schedule, the results and the errors
\* unchanged.
C6_EagerEnqueue ==
    [][(always_eager /\ last'.op = "Medusa.enqueue")
        => /\ last'.ret = RetValue(execute(last'.arg))
           /\ last'.exc = NoExc
           /\ last'.calls = <<>>
           /\ UNCHANGED db]_vars

\* C6: an eager facade has run a task and returned its value, while the Task table
\* holds rows that a storage handle wrote.
C6_Witness ==
    /\ always_eager
    /\ last.op = "Medusa.enqueue"
    /\ last.ret.tag = "value"
    /\ last.calls = <<>>
    /\ tasks # {}

\* C8: unqueue(payload) removes exactly the Task rows of its queue name that hold
\* this payload, duplicates included; rows of the queue with another payload and
\* rows of another queue name stay.
C8_Unqueue ==
    [][last'.op = "unqueue"
        => tasks' = {r \in tasks : ~(r.queue = last'.name /\ r.data = last'.arg[1])}]_vars

\* C8: an unqueue removed a row, and there remain a row of the same queue with
\* another payload and a row of another queue with the same payload.
C8_Witness ==
    /\ last.op = "unqueue"
    /\ last.ret.val[1] >= 1
    /\ \E r \in tasks : r.queue = last.name /\ r.data # last.arg[1]
    /\ \E r \in tasks : r.queue # last.name /\ r.data = last.arg[1]

(***************************************************************************)
(* The schedule: producers and consumers on storage handles, and the       *)
(* schedule() method of a task function.                                   *)
(***************************************************************************)
\* the etas handed to schedule(): None, a naive and an aware datetime
EtaChoices == {<<>>, <<Naive(MaxTime)>>, <<Aware(MaxTime, 1)>>}

\* SqliteStorage.flush_schedule: one delete
FlushSchedule(name) ==
    /\ schedule' = flush_schedule(schedule, name)
    /\ last' = Call("flush_schedule", name, <<>>, RetNone, NoExc, <<"delete">>)
    /\ UNCHANGED <<tasks, keyvalue, errors, clock, config, local, history>>

InitSchedule ==
    /\ tasks = {}
    /\ taskUid = 0
    /\ always_eager = FALSE
    /\ result_store = TRUE
    /\ InitCommon

NextSchedule ==
    \/ \E name \in Queues, data \in Payloads, ts \in 0..MaxTime :
          AddToSchedule(name, data, ts)
    \/ \E c \in Consumers, name \in Queues, ts \in 0..MaxTime :
          ReadScheduleSelect(c, name, ts)
    \/ \E c \in Consumers : ReadScheduleDelete(c)
    \/ \E name \in Queues : FlushSchedule(name)

SpecSchedule == InitSchedule /\ [][NextSchedule]_vars

(***************************************************************************)
(* The queue used by one caller at a time: every dequeue runs from its     *)
(* select to its return before the next call starts.                       *)
(***************************************************************************)
\* dequeue, lines 184-191, without another call in between
Dequeue(name) ==
    LET task == dequeue_select(tasks, name)
        gone == IF task = NoRow THEN {} ELSE dequeue_delete(tasks, name, task)
        ret == IF task = NoRow THEN RetNone ELSE dequeue_return(Cardinality(gone), task)
    IN  /\ \A c \in Consumers : local[c].pc = "idle"
        /\ tasks' = tasks \ gone
        /\ deqReturned' = IF ret = RetNone THEN deqReturned
                          ELSE Bump(deqReturned, task.uid)
        /\ last' = Call("dequeue", name, <<>>, ret, NoExc,
                        IF task = NoRow THEN <<"select">> ELSE <<"select", "delete">>)
        /\ UNCHANGED <<schedule, keyvalue, errors, clock, config, local, taskUid,
                       schedUid, schedReturned>>

NextFifo ==
    \/ \E name \in Queues, data \in Payloads : Enqueue(name, data)
    \/ \E name \in Queues : Dequeue(name)
    \/ \E name \in Queues, data \in Payloads : Unqueue(name, data)

SpecFifo == InitSchedule /\ [][NextFifo]_vars

\* C16: a dequeue that runs alone returns None when its queue name has no row, and
\* otherwise the payload of the row of its queue name that was inserted first among
\* those stored, and removes that row and no other; so the payloads come out in the
\* order in which they were put in.
C16_Fifo ==
    [][last'.op = "dequeue"
        => LET mine == tasks_of(tasks, last'.name)
           IN  IF mine = {}
               THEN last'.ret = RetNone /\ tasks' = tasks
               ELSE \E oldest \in mine :
                       /\ \A r \in mine : oldest.uid <= r.uid
                       /\ last'.ret = RetData(oldest.data)
                       /\ tasks' = tasks \ {oldest}]_vars

\* C16: three tasks were put in and a dequeue has just returned the last of them
\* that was still stored; each of the three came out once.
C16_Witness ==
    /\ last.op = "dequeue"
    /\ last.ret.tag = "data"
    /\ taskUid >= 3
    /\ \A u \in 1..3 : deqReturned[u] = 1
    /\ tasks = {}

(***************************************************************************)
(* The schedule used by one caller at a time: every read_schedule runs     *)
(* from its select to its return before the next call starts.              *)
(***************************************************************************)
\* read_schedule, lines 218-232, without another call in between
ReadSchedule(name, ts) ==
    LET rows == read_schedule_select(schedule, name, ts)
        id_list == {r.id : r \in Range(rows)}
    IN  /\ \A c \in Consumers : local[c].pc = "idle"
        /\ schedule' = IF id_list # {}
                       THEN schedule \ read_schedule_delete(schedule, id_list)
                       ELSE schedule
        /\ schedReturned' = [u \in DOMAIN schedReturned |->
                                IF \E r \in Range(rows) : r.uid = u
                                THEN schedReturned[u] + 1 ELSE schedReturned[u]]
        /\ last' = Call("read_schedule", name, <<ts>>, RetList(data_of(rows)), NoExc,
                        IF id_list # {} THEN <<"select", "delete">> ELSE <<"select">>)
        /\ UNCHANGED <<tasks, keyvalue, errors, clock, config, local, taskUid,
                       schedUid, deqReturned>>

NextSequential ==
    \/ \E name \in Queues, data \in Payloads, ts \in 0..MaxTime :
          AddToSchedule(name, data, ts)
    \/ \E name \in Queues, ts \in 0..MaxTime : ReadSchedule(name, ts)
    \/ \E name \in Queues : FlushSchedule(name)

SpecSequential == InitSchedule /\ [][NextSequential]_vars

\* the rows of a queue name that are due at the cutoff
C15_Due(S, name, cutoff) == {r \in S : r.queue = name /\ r.timestamp <= cutoff}

\* C15: a read_schedule(cutoff) that runs alone returns the payloads of exactly the
\* rows of its queue name with timestamp <= cutoff, each once, in non-decreasing
\* order of timestamp, and the table afterwards is the table before without these
\* rows; when there is no such row it returns the empty list after the select alone,
\* and the table is the same.
C15_ReadSchedule ==
    [][last'.op = "read_schedule"
        => LET name == last'.name
               due == C15_Due(schedule, name, last'.arg[1])
               n == Cardinality(due)
               ret == last'.ret.val
           IN  /\ last'.ret.tag = "list"
               /\ \E seq \in [1..n -> due] :
                     /\ \A i, j \in 1..n : i # j => seq[i] # seq[j]
                     /\ \A i, j \in 1..n : i < j => seq[i].timestamp <= seq[j].timestamp
                     /\ ret = [i \in 1..n |-> seq[i].data]
               /\ schedule' = schedule \ due
               /\ schedule_of(schedule', name) =
                     {r \in schedule_of(schedule, name) : r.timestamp > last'.arg[1]}
               /\ due = {} => /\ ret = <<>>
                              /\ last'.calls = <<"select">>
                              /\ schedule' = schedule]_vars

\* C15: a read_schedule has returned one payload and deleted its row, and a row of
\* the same queue name with a later timestamp is still in the table.
C15_Witness ==
    /\ last.op = "read_schedule"
    /\ Len(last.ret.val) = 1
    /\ last.calls = <<"select", "delete">>
    /\ \E r \in schedule_of(schedule, last.name) : r.timestamp > last.arg[1]
    /\ \E u \in DOMAIN schedReturned : schedReturned[u] = 1

(***************************************************************************)
(* Scheduled tasks: the application calls schedule() on its task functions *)
(* and adds entries for the times ahead; the worker reads the schedule at  *)
(* the current time.                                                       *)
(***************************************************************************)
InitTask ==
    /\ tasks = {}
    /\ taskUid = 0
    /\ always_eager = FALSE
    /\ result_store = TRUE
    /\ InitCommon

NextTask ==
    \/ \E task \in TaskInstances, delay \in 0..MaxDelay, eta \in EtaChoices,
          convert_utc \in BOOLEAN, raw \in BackendOutcomes :
          TaskSchedule(Facade, task, delay, eta, convert_utc, raw)
    \/ \E data \in Payloads, delay \in 0..MaxDelay :
          schedUid < MaxAhead /\ AddToSchedule(Facade, data, clock + delay)
    \/ ReadScheduleSelect(Worker, Facade, clock)
    \/ ReadScheduleDelete(Worker)
    \/ Tick

SpecTask == InitTask /\ [][NextTask]_vars

\* C2: every Schedule row is returned by at most one read_schedule call, whether the
\* calls follow one another or overlap.
C2_AtMostOnce == \A u \in 1..schedUid : schedReturned[u] <= 1

\* C3: after schedule(delay=d) at time now on the non-eager facade, a read_schedule
\* of its queue at a time up to now does not return the task's message, and the
\* read_schedule at now + d + 1 or later returns it and removes it from the Schedule
\* table, so that no later read_schedule returns it again.
C3_DelayedDelivery ==
    [][(/\ last.op = "schedule"
        /\ ~always_eager
        /\ last.arg.delay > 0
        /\ last.arg.eta = <<>>
        /\ last'.op = "read_schedule"
        /\ last'.name = last.name)
        => LET msg == get_message_for_task(last.arg.task)
               ts == last'.arg[1]
               stored == {r \in schedule_of(schedule, last.name) : r.data = msg}
           IN  /\ (ts <= last.arg.now /\ \A r \in stored : r.timestamp > ts)
                     => msg \notin Range(last'.ret.val)
               /\ ts >= last.arg.now + last.arg.delay + 1
                     => /\ msg \in Range(last'.ret.val)
                        /\ \A r \in schedule_of(schedule', last.name) : r.data # msg]_vars

Keys == {"k1"}
\* stored values: the empty-result sentinel (constants.EmptyData) and a result
Values == {"EmptyData", "r1"}
\* error metadata
Metadata == {"e1"}
\* what peek_data and pop_data give for a key that has no row
RetAbsent == [tag |-> "absent", val |-> <<>>]

\* SqliteStorage.kv: the rows a select of this handle sees
kv_of(K, name) == {r \in K : r.queue = name}

\* a put_data whose insert is lost
put_data_lost(K, name, key, value) == K

\* SqliteStorage.put_data
put_data(K, name, key, value) ==
    K \cup {[id |-> NewId(K), queue |-> name, key |-> key, value |-> value]}

\* SqliteStorage.peek_data: the most recent row of the key, or no row
peek_data(K, name, key) ==
    LET rows == {r \in kv_of(K, name) : r.key = key}
    IN  IF rows = {} THEN NoRow
        ELSE CHOOSE r \in rows : \A o \in rows : o.id <= r.id

\* SqliteStorage.pop_data: the table after the row read has been deleted
pop_data(K, name, key) == K \ {peek_data(K, name, key)}

\* SqliteStorage.result_store_size
result_store_size(K, name) == Cardinality(kv_of(K, name))

\* SqliteStorage.flush_results: the table afterwards
flush_results(K, name) == K \ kv_of(K, name)

\* the entries of the error log that belong to a queue name, oldest first
errors_of(E, name) == SelectSeq(E, LAMBDA e : e.queue = name)

\* SqliteStorage.put_error: the log afterwards
put_error(E, name, metadata) == Append(E, [queue |-> name, metadata |-> metadata])

\* SqliteStorage.get_errors(limit, offset): limit 0 stands for None, no limit
get_errors(E, name, limit, offset) ==
    LET mine == errors_of(E, name)
        first == offset + 1
        final == IF limit = 0 THEN Len(mine)
                 ELSE IF offset + limit < Len(mine) THEN offset + limit ELSE Len(mine)
    IN  [i \in 1..(IF final >= first THEN final - first + 1 ELSE 0) |->
            mine[first + i - 1].metadata]

\* SqliteStorage.flush_errors: the log afterwards
flush_errors(E, name) == SelectSeq(E, LAMBDA e : e.queue # name)

\* BaseStorage.flush_all: the flushes it calls, in the order it calls them
flush_all == <<"flush_queue", "flush_schedule", "flush_results", "flush_errors">>

\* flush_all: the four flushes of this queue name, one after the other
FlushAll(name) ==
    /\ tasks' = flush_queue(tasks, name)
    /\ schedule' = flush_schedule(schedule, name)
    /\ keyvalue' = flush_results(keyvalue, name)
    /\ errors' = flush_errors(errors, name)
    /\ last' = Call("flush_all", name, <<>>, RetNone, NoExc, flush_all)
    /\ UNCHANGED <<clock, config, local, history>>

(***************************************************************************)
(* A producer and a consumer on one facade.  The producer calls a task     *)
(* function (inner_run builds the task with the retries and retry_delay of *)
(* the decorator and hands it to Medusa.enqueue); the consumer loop asks   *)
(* Medusa.dequeue for the next task, again and again.                      *)
(***************************************************************************)
\* inner_run, lines 122-129: the task is built and enqueued
InnerRun(task, raw) == enqueue_task("inner_run", task, Facade, task, raw)

\* one turn of the consumer loop: Medusa.dequeue
ConsumerDequeue == Medusa_dequeue(Facade)

InitRetry ==
    /\ tasks = {}
    /\ taskUid = 0
    /\ always_eager = FALSE
    /\ result_store \in BOOLEAN
    /\ InitCommon

NextRetry ==
    \/ \E task \in TaskInstances, raw \in BackendOutcomes : InnerRun(task, raw)
    \/ ConsumerDequeue

\* the consumer loop keeps running
SpecRetry == InitRetry /\ [][NextRetry]_vars /\ WF_vars(ConsumerDequeue)

\* C13: a task whose function always fails, once in the queue, is handed to the
\* consumer and attempted (three times with retries=2) until its failure is
\* recorded as a terminal error: a stored task leads to the consumer receiving it
\* from dequeue and to an entry of the error log.
C13_ThreeAttempts ==
    (tasks_of(tasks, Facade) # {})
        ~> (/\ last.op = "Medusa.dequeue"
            /\ last.exc = NoExc
            /\ errors_of(errors, Facade) # <<>>)

(***************************************************************************)
(* The result store called directly: put_data, peek_data, pop_data.        *)
(***************************************************************************)
\* the rows of a key that a handle sees
rows_of_key(K, name, key) == {r \in kv_of(K, name) : r.key = key}

\* what peek_data and pop_data return for the row they read
data_return(row) == IF row = NoRow THEN RetAbsent ELSE RetValue(row.value)

\* put_data: one insert
PutData(name, key, value) ==
    /\ NewId(keyvalue) <= MaxKV
    /\ keyvalue' = put_data(keyvalue, name, key, value)
    /\ last' = Call("put_data", name, <<key, value>>, RetNone, NoExc, <<"insert">>)
    /\ UNCHANGED <<tasks, schedule, errors, clock, config, local, history>>

\* peek_data: one select
PeekData(name, key) ==
    /\ last' = Call("peek_data", name, <<key>>, data_return(peek_data(keyvalue, name, key)),
                    NoExc, <<"select">>)
    /\ UNCHANGED <<db, clock, config, local, history>>

\* pop_data: the select of peek_data, then the delete of the row read
PopData(name, key) ==
    /\ keyvalue' = pop_data(keyvalue, name, key)
    /\ last' = Call("pop_data", name, <<key>>, data_return(peek_data(keyvalue, name, key)),
                    NoExc, IF peek_data(keyvalue, name, key) = NoRow
                           THEN <<"select">> ELSE <<"select", "delete">>)
    /\ UNCHANGED <<tasks, schedule, errors, clock, config, local, history>>

InitData ==
    /\ tasks = {}
    /\ taskUid = 0
    /\ always_eager = FALSE
    /\ result_store = TRUE
    /\ InitCommon

NextData ==
    \/ \E name \in Queues, key \in Keys, value \in Values : PutData(name, key, value)
    \/ \E name \in Queues, key \in Keys : PeekData(name, key)
    \/ \E name \in Queues, key \in Keys : PopData(name, key)

SpecData == InitData /\ [][NextData]_vars

\* the call before and the call after are on the same handle and key
C12_SameKey == last'.name = last.name /\ last'.arg[1] = last.arg[1]

RevokeKey == "k1"

\* the timestamps a caller asks about or revokes until
Timestamps == 0..MaxTime

\* a _revoke that asks for the next occurrence only, whatever it was given
revoke_args_once(revoke_until, revoke_once) == <<revoke_until, TRUE>>

\* _revoke, lines 150-151: both arguments are handed on as they are
revoke_args(revoke_until, revoke_once) == <<revoke_until, revoke_once>>

\* the revocation state "revoked forever": no timestamp, not once
RevokedForever == <<<<>>, FALSE>>

\* the settings revoke is called with
RevokeSettings ==
    {<<<<>>, FALSE>>, <<<<>>, TRUE>>} \cup {<<<<t>>, FALSE>> : t \in Timestamps}

\* is_revoked on the state read: absent is not revoked; once is revoked; otherwise
\* revoked when there is no timestamp or the timestamp lies after dt
is_revoked(row, dt) ==
    IF row = NoRow THEN FALSE
    ELSE IF row.value[2] THEN TRUE
    ELSE row.value[1] = <<>> \/ row.value[1][1] > dt

\* func.revoke(revoke_until, revoke_once): the state is put under the key
Revoke(revoke_until, revoke_once) ==
    /\ NewId(keyvalue) <= MaxKV
    /\ keyvalue' = put_data(keyvalue, Facade, RevokeKey,
                            revoke_args(revoke_until, revoke_once))
    /\ last' = FacadeCall("revoke", Facade, <<revoke_until, revoke_once>>, RetNone,
                          NoExc, NoExc, <<"put_data">>)
    /\ UNCHANGED <<tasks, schedule, errors, clock, config, local, history>>

\* func.is_revoked(dt, peek): the state is peeked; a once-only revocation is
\* popped when peek is off
IsRevoked(dt, peek) ==
    LET row == peek_data(keyvalue, Facade, RevokeKey)
        pops == row # NoRow /\ row.value[2] /\ ~peek
    IN  /\ keyvalue' = IF pops THEN pop_data(keyvalue, Facade, RevokeKey) ELSE keyvalue
        /\ last' = FacadeCall("is_revoked", Facade, <<dt, peek>>,
                              RetValue(is_revoked(row, dt)), NoExc, NoExc,
                              IF pops THEN <<"peek_data", "pop_data">>
                              ELSE <<"peek_data">>)
        /\ UNCHANGED <<tasks, schedule, errors, clock, config, local, history>>

\* func.restore(): the state is popped
Restore ==
    /\ keyvalue' = pop_data(keyvalue, Facade, RevokeKey)
    /\ last' = FacadeCall("restore", Facade, <<>>, RetNone, NoExc, NoExc, <<"pop_data">>)
    /\ UNCHANGED <<tasks, schedule, errors, clock, config, local, history>>

InitRevoke ==
    /\ tasks = {}
    /\ taskUid = 0
    /\ always_eager = FALSE
    /\ result_store = TRUE
    /\ InitCommon

NextRevoke ==
    \/ \E setting \in RevokeSettings : Revoke(setting[1], setting[2])
    \/ \E dt \in Timestamps, peek \in BOOLEAN : IsRevoked(dt, peek)
    \/ Restore

SpecRevoke == InitRevoke /\ [][NextRevoke]_vars

\* the revocation state a call of is_revoked would read
C14_State == peek_data(keyvalue, Facade, RevokeKey)

WrappedOps ==
    {"_enqueue", "_dequeue", "_unqueue", "_get_data", "_put_data", "_put_error",
     "_get_errors", "_add_to_schedule", "_read_schedule"}

\* the wrapped method op raised raw inside: the caller observes the wrapped error
WrappedRaises(op, arg, raw, calls) ==
    /\ raw # NoExc
    /\ last' = FacadeCall(op, Facade, arg, RetNone,
                          wrapped_operation(wrapped_class(op), raw), raw, calls)
    /\ UNCHANGED <<db, clock, config, local, history>>

\* the wrapped method op returned ret
WrappedReturns(op, arg, ret, calls) ==
    last' = FacadeCall(op, Facade, arg, ret, NoExc, NoExc, calls)

RowCount == Cardinality(tasks) + Cardinality(schedule) + Cardinality(keyvalue) + Len(errors)

\* Medusa._enqueue(msg)
Wrapped_enqueue(msg, raw) ==
    \/ WrappedRaises("_enqueue", <<msg>>, raw, <<"enqueue">>)
    \/ /\ raw = NoExc
       /\ taskUid < MaxTasks
       /\ RowCount < MaxRows
       /\ tasks' = enqueue(tasks, Facade, msg, taskUid + 1)
       /\ taskUid' = taskUid + 1
       /\ WrappedReturns("_enqueue", <<msg>>, RetNone, <<"enqueue">>)
       /\ UNCHANGED <<schedule, keyvalue, errors, clock, config, local, schedUid,
                      deqReturned, schedReturned>>

\* Medusa._dequeue, called with nargs arguments: the body raises before the storage
\* is reached
Wrapped_dequeue(nargs) ==
    WrappedRaises("_dequeue", <<nargs>>, dequeue_body(nargs), <<>>)

\* Medusa._unqueue(msg): the number of rows removed is not returned
Wrapped_unqueue(msg, raw) ==
    \/ WrappedRaises("_unqueue", <<msg>>, raw, <<"unqueue">>)
    \/ /\ raw = NoExc
       /\ tasks' = tasks \ unqueue(tasks, Facade, msg)
       /\ WrappedReturns("_unqueue", <<msg>>, RetNone, <<"unqueue">>)
       /\ UNCHANGED <<schedule, keyvalue, errors, clock, config, local, history>>

\* Medusa._get_data(key, peek): peek_data or pop_data
Wrapped_get_data(key, peek, raw) ==
    LET calls == IF peek THEN <<"peek_data">> ELSE <<"pop_data">>
        row == peek_data(keyvalue, Facade, key)
    IN  \/ WrappedRaises("_get_data", <<key, peek>>, raw, calls)
        \/ /\ raw = NoExc
           /\ keyvalue' = IF peek THEN keyvalue ELSE pop_data(keyvalue, Facade, key)
           /\ WrappedReturns("_get_data", <<key, peek>>,
                             IF row = NoRow THEN RetAbsent ELSE RetValue(row.value), calls)
           /\ UNCHANGED <<tasks, schedule, errors, clock, config, local, history>>

\* Medusa._put_data(key, value)
Wrapped_put_data(key, value, raw) ==
    \/ WrappedRaises("_put_data", <<key, value>>, raw, <<"put_data">>)
    \/ /\ raw = NoExc
       /\ NewId(keyvalue) <= MaxKV
       /\ RowCount < MaxRows
       /\ keyvalue' = put_data(keyvalue, Facade, key, value)
       /\ WrappedReturns("_put_data", <<key, value>>, RetNone, <<"put_data">>)
       /\ UNCHANGED <<tasks, schedule, errors, clock, config, local, history>>

\* Medusa._put_error(metadata)
Wrapped_put_error(metadata, raw) ==
    \/ WrappedRaises("_put_error", <<metadata>>, raw, <<"put_error">>)
    \/ /\ raw = NoExc
       /\ Len(errors) < MaxErrors
       /\ RowCount < MaxRows
       /\ errors' = put_error(errors, Facade, metadata)
       /\ WrappedReturns("_put_error", <<metadata>>, RetNone, <<"put_error">>)
       /\ UNCHANGED <<tasks, schedule, keyvalue, clock, config, local, history>>

\* Medusa._get_errors(limit, offset)
Wrapped_get_errors(limit, offset, raw) ==
    \/ WrappedRaises("_get_errors", <<limit, offset>>, raw, <<"get_errors">>)
    \/ /\ raw = NoExc
       /\ WrappedReturns("_get_errors", <<limit, offset>>,
                         RetList(get_errors(errors, Facade, limit, offset)),
                         <<"get_errors">>)
       /\ UNCHANGED <<db, clock, config, local, history>>

\* Medusa._add_to_schedule(data, ts)
Wrapped_add_to_schedule(data, ts, raw) ==
    \/ WrappedRaises("_add_to_schedule", <<data, ts>>, raw, <<"add_to_schedule">>)
    \/ /\ raw = NoExc
       /\ schedUid < MaxSched
       /\ RowCount < MaxRows
       /\ schedule' = add_to_schedule(schedule, Facade, data, ts, schedUid + 1)
       /\ schedUid' = schedUid + 1
       /\ WrappedReturns("_add_to_schedule", <<data, ts>>, RetNone, <<"add_to_schedule">>)
       /\ UNCHANGED <<tasks, keyvalue, errors, clock, config, local, taskUid,
                      deqReturned, schedReturned>>

\* Medusa._read_schedule(ts): the select and the delete of read_schedule
Wrapped_read_schedule(ts, raw) ==
    LET rows == read_schedule_select(schedule, Facade, ts)
        id_list == {r.id : r \in Range(rows)}
    IN  \/ WrappedRaises("_read_schedule", <<ts>>, raw, <<"read_schedule">>)
        \/ /\ raw = NoExc
           /\ schedule' = schedule \ read_schedule_delete(schedule, id_list)
           /\ schedReturned' = [u \in DOMAIN schedReturned |->
                                   IF \E r \in Range(rows) : r.uid = u
                                   THEN schedReturned[u] + 1 ELSE schedReturned[u]]
           /\ WrappedReturns("_read_schedule", <<ts>>, RetList(data_of(rows)),
                             <<"read_schedule">>)
           /\ UNCHANGED <<tasks, keyvalue, errors, clock, config, local, taskUid,
                          schedUid, deqReturned>>

\* the except clause of Medusa.emit re-raising what it caught
emit_except_reraise(raw) == raw

\* Medusa.emit, lines 207-209: the bare except clause passes, whatever was raised
emit_except(raw) == NoExc

\* the lifecycle events handed to emit
Events == {"started", "finished"}

\* what storage.emit does: returns, or raises a database error or any other error
EmitOutcomes == BackendOutcomes \cup {Exc("TypeError", "")}

\* Medusa.emit(message): storage.emit inside try / except
Medusa_emit(message, raw) ==
    /\ last' = FacadeCall("emit", Facade, <<message>>, RetNone, emit_except(raw), raw,
                          <<"emit">>)
    /\ UNCHANGED <<db, clock, config, local, history>>

InitFacade ==
    /\ tasks = {}
    /\ taskUid = 0
    /\ always_eager = FALSE
    /\ result_store = TRUE
    /\ InitCommon

NextFacade ==
    \/ \E msg \in Payloads, raw \in BackendOutcomes : Wrapped_enqueue(msg, raw)
    \/ \E nargs \in 0..1 : Wrapped_dequeue(nargs)
    \/ \E msg \in Payloads, raw \in BackendOutcomes : Wrapped_unqueue(msg, raw)
    \/ \E key \in Keys, peek \in BOOLEAN, raw \in BackendOutcomes :
          Wrapped_get_data(key, peek, raw)
    \/ \E key \in Keys, value \in Values, raw \in BackendOutcomes :
          Wrapped_put_data(key, value, raw)
    \/ \E metadata \in Metadata, raw \in BackendOutcomes :
          Wrapped_put_error(metadata, raw)
    \/ \E limit \in 0..1, offset \in 0..1, raw \in BackendOutcomes :
          Wrapped_get_errors(limit, offset, raw)
    \/ \E data \in Payloads, ts \in 0..1, raw \in BackendOutcomes :
          Wrapped_add_to_schedule(data, ts, raw)
    \/ \E ts \in 0..1, raw \in BackendOutcomes : Wrapped_read_schedule(ts, raw)
    \/ \E message \in Events, raw \in EmitOutcomes : Medusa_emit(message, raw)

SpecFacade == InitFacade /\ [][NextFacade]_vars

\* the taxonomy kind the claim names for each wrapped method
C10_Kind(op) ==
    CASE op \in {"_enqueue"} -> "QueueWriteException"
      [] op \in {"_dequeue"} -> "QueueReadException"
      [] op \in {"_unqueue"} -> "QueueRemoveException"
      [] op \in {"_get_data", "_get_errors"} -> "DataStoreGetException"
      [] op \in {"_put_data", "_put_error"} -> "DataStorePutException"
      [] op \in {"_add_to_schedule"} -> "ScheduleAddException"
      [] op \in {"_read_schedule"} -> "ScheduleReadException"

\* C10: whenever the storage call inside a wrapped method of the facade raises, the
\* caller observes an exception of the taxonomy kind that belongs to the method,
\* naming the original error, and never the raw error itself.
C10_Normalised ==
    (last.op \in WrappedOps /\ last.raw # NoExc)
        => /\ last.exc = Exc(C10_Kind(last.op), last.raw.cls)
           /\ last.exc.cls \in Taxonomy
           /\ last.exc # last.raw

\* C10: the database raised OperationalError inside _read_schedule while the Schedule
\* table held a row; the caller saw ScheduleReadException.
C10_Witness ==
    /\ last.op = "_read_schedule"
    /\ last.raw = Exc("OperationalError", "")
    /\ last.exc.cls = "ScheduleReadException"
    /\ schedule # {}

\* C11: emit never propagates an error: whether storage.emit returns or raises, the
\* call of the facade's emit returns None with no exception, and the configuration
\* of the facade and the stores are as they were.
C11_EmitSwallows ==
    [][last'.op = "emit"
        => /\ last'.exc = NoExc
           /\ last'.ret = RetNone
           /\ UNCHANGED <<config, db>>]_vars

\* C11: storage.emit raised a database error while the stores held a row, and
\* the caller of emit saw a normal return.
C11_Witness ==
    /\ last.op = "emit"
    /\ last.raw = Exc("OperationalError", "")
    /\ last.exc = NoExc
    /\ RowCount > 0

(***************************************************************************)
(* Flushes of stores that hold rows of several queue names.                *)
(***************************************************************************)
\* the Task tables that hold n rows, inserted one after the other
RECURSIVE Stored(_, _)
Stored(n, P) ==
    IF n = 0 THEN {{}}
    ELSE UNION {{enqueue(T, q, d, n) : q \in Queues, d \in P} : T \in Stored(n - 1, P)}

\* the Schedule tables that hold n rows, inserted one after the other
RECURSIVE StoredSchedule(_)
StoredSchedule(n) ==
    IF n = 0 THEN {{}}
    ELSE UNION {{add_to_schedule(S, q, d, 0, n) : q \in Queues, d \in {<<"add", <<1>>, <<>>>>}} :
                S \in StoredSchedule(n - 1)}

\* the KeyValue tables that hold n rows, inserted one after the other
RECURSIVE StoredData(_)
StoredData(n) ==
    IF n = 0 THEN {{}}
    ELSE UNION {{put_data(K, q, k, "r1") : q \in Queues, k \in Keys} : K \in StoredData(n - 1)}

\* the error logs that hold n entries
RECURSIVE StoredErrors(_)
StoredErrors(n) ==
    IF n = 0 THEN {<<>>}
    ELSE UNION {{put_error(E, q, m) : q \in Queues, m \in Metadata} : E \in StoredErrors(n - 1)}

InitFlush ==
    /\ \E n \in 0..MaxFlush : /\ tasks \in Stored(n, {<<"add", <<1>>, <<>>>>})
                              /\ taskUid = n
    /\ \E n \in 0..MaxFlush : /\ schedule \in StoredSchedule(n)
                              /\ schedUid = n
    /\ \E n \in 0..MaxFlush : keyvalue \in StoredData(n)
    /\ \E n \in 0..MaxFlush : errors \in StoredErrors(n)
    /\ clock = 0
    /\ always_eager = FALSE
    /\ result_store = TRUE
    /\ local = [c \in Consumers |-> Idle]
    /\ deqReturned = [u \in 1..MaxTasks |-> 0]
    /\ schedReturned = [u \in 1..MaxSched |-> 0]
    /\ last = Call("init", "A", <<>>, RetNone, NoExc, <<>>)

NextFlush ==
    \/ \E name \in Queues : FlushQueue(name)
    \/ \E name \in Queues : FlushSchedule(name)
    \/ \E name \in Queues : FlushAll(name)

SpecFlush == InitFlush /\ [][NextFlush]_vars

\* C9: after flush_all on a handle named A the queue, the schedule, the result store
\* and the error log hold nothing for A, every row of another queue name is as it
\* was, and the flushes ran in the order queue, schedule, results, errors.
C9_FlushAll ==
    [][last'.op = "flush_all"
        => LET A == last'.name
           IN  /\ queue_size(tasks', A) = 0
               /\ schedule_size(schedule', A) = 0
               /\ result_store_size(keyvalue', A) = 0
               /\ Len(errors_of(errors', A)) = 0
               /\ \A B \in Queues \ {A} :
                     /\ tasks_of(tasks', B) = tasks_of(tasks, B)
                     /\ schedule_of(schedule', B) = schedule_of(schedule, B)
                     /\ kv_of(keyvalue', B) = kv_of(keyvalue, B)
                     /\ errors_of(errors', B) = errors_of(errors, B)
               /\ last'.calls = <<"flush_queue", "flush_schedule", "flush_results",
                                  "flush_errors">>]_vars

\* C9: flush_all has removed Task and Schedule rows of its queue name, and every
\* store still holds a row of the other queue name.
C9_Witness ==
    /\ last.op = "flush_all"
    /\ taskUid > Cardinality(tasks)
    /\ schedUid > Cardinality(schedule)
    /\ \A B \in Queues \ {last.name} :
          /\ tasks_of(tasks, B) # {}
          /\ schedule_of(schedule, B) # {}
          /\ kv_of(keyvalue, B) # {}
          /\ errors_of(errors, B) # <<>>

(***************************************************************************)
(* Two queue names in one database.                                        *)
(***************************************************************************)
\* C17: queue-name isolation: a call on the handle of one queue name reads and
\* selects only rows of that name, and whatever it inserts or deletes, the Task,
\* Schedule and KeyValue rows of every other queue name are the same rows after the
\* step as before it.
C17_Isolation ==
    [][/\ \A c \in Consumers :
             /\ local'[c].task # NoRow => local'[c].task.queue = local'[c].name
             /\ \A r \in Range(local'[c].rows) : r.queue = local'[c].name
       /\ \A B \in Queues \ {last'.name} :
             /\ tasks_of(tasks', B) = tasks_of(tasks, B)
             /\ schedule_of(schedule', B) = schedule_of(schedule, B)
             /\ kv_of(keyvalue', B) = kv_of(keyvalue, B)]_vars

\* C19: read_schedule never deletes an entry it does not return: the rows that the
\* delete of a read_schedule call removes are rows this call selected, so an entry
\* that add_to_schedule inserted after the select is still in the table afterwards.
C19_DeletesOnlySelected ==
    [][\A c \in Consumers :
          (local[c].pc = "read_schedule_delete" /\ local'[c].pc = "idle")
              => /\ (schedule \ schedule') \subseteq Range(local[c].rows)
                 /\ \A r \in schedule :
                       (\A x \in Range(local[c].rows) : x.uid # r.uid) => r \in schedule']_vars

\* one read_schedule at a time, with inserts between its select and its delete and
\* no other call that removes rows
NextOneReader ==
    \/ \E name \in Queues, data \in Payloads, ts \in 0..MaxTime :
          AddToSchedule(name, data, ts)
    \/ \E name \in Queues, ts \in 0..MaxTime : ReadScheduleSelect(Worker, name, ts)
    \/ ReadScheduleDelete(Worker)

SpecOneReader == InitSchedule /\ [][NextOneReader]_vars

(***************************************************************************)
(* Concurrent dequeue calls on stored tasks.                               *)
(***************************************************************************)
InitDequeue ==
    /\ \E n \in 0..MaxTasks : /\ tasks \in Stored(n, Payloads)
                              /\ taskUid = n
    /\ always_eager = FALSE
    /\ result_store = TRUE
    /\ InitCommon

NextDequeue ==
    \/ \E c \in Consumers, name \in Queues : DequeueSelect(c, name)
    \/ \E c \in Consumers : DequeueDelete(c)

SpecDequeue == InitDequeue /\ [][NextDequeue]_vars

\* C1: every stored Task row is returned by at most one dequeue call, whatever the
\* interleaving of the selects and deletes of concurrent dequeue calls: a row still
\* stored has been returned by no call, a row no longer stored by exactly one (so of
\* two calls racing for a single stored task exactly one returns its payload).
C1_AtMostOnce ==
    \A u \in 1..taskUid :
        IF \E r \in tasks : r.uid = u THEN deqReturned[u] = 0 ELSE deqReturned[u] = 1

\* C1: one task was stored and two dequeue calls raced for it (both selected it); one
\* has returned its payload, the other, whose delete affected no row, returned None.
C1_Witness ==
    /\ last.op = "dequeue"
    /\ last.calls = <<"select", "delete">>
    /\ last.ret = RetNone
    /\ taskUid = 1
    /\ deqReturned[1] = 1
    /\ tasks = {}
    /\ \A c \in Consumers : local[c].pc = "idle"

(***************************************************************************)
(* Producers and concurrent consumers on the storage.                      *)
(***************************************************************************)
NextConcurrent ==
    \/ \E name \in Queues, data \in Payloads : Enqueue(name, data)
    \/ \E c \in Consumers, name \in Queues : DequeueSelect(c, name)
    \/ \E c \in Consumers : DequeueDelete(c)

SpecConcurrent == InitSchedule /\ [][NextConcurrent]_vars

\* C18: no task is deleted without being delivered: whatever the interleaving of
\* enqueue calls and concurrent dequeue calls, a dequeue call removes at most one
\* Task row, and a row it removes is the row whose payload this call returns.
C18_NoLoss ==
    [][last'.op = "dequeue"
        => LET gone == tasks \ tasks'
           IN  /\ Cardinality(gone) <= 1
               /\ \A r \in gone : last'.ret = RetData(r.data)]_vars

=============================================================================
